---------------------------- MODULE Spec2Model ----------------------------
(***************************************************************************)
(* Model of the lung-nan-bot budget assistant: the transaction parser      *)
(* (src/parser.py), the message handler (src/app.py) and the financial     *)
(* health scorer (src/db.py).                                              *)
(*                                                                         *)
(* Text.  A Python str is a sequence of characters; a character is a TLA+  *)
(* string.  An ASCII character is written as itself ("a", "5", ","), a     *)
(* Thai code point by its Unicode character name ("ro_rua" is U+0E23,      *)
(* "mai_han_akat" is U+0E31), and "LF", "TAB", "FWCOMMA", "BULLET" are the *)
(* line feed, the tab, the full-width comma U+FF0C and the bullet U+2022.  *)
(* Every keyword table below is the source's table, code point by code     *)
(* point, so a keyword that is a substring of another one in the source    *)
(* is a subsequence of it here.                                            *)
(*                                                                         *)
(* Optional values.  A Python value that may be None is a sequence of      *)
(* length 0 (None) or 1; a type hint is "income", "expense" or "None".     *)
(*                                                                         *)
(* Numbers.  A float read from decimal text is the exact decimal           *)
(* [num |-> n, frac |-> f], standing for n / 10^f with no trailing zero    *)
(* in the fraction; sums and differences are exact.                        *)
(***************************************************************************)
EXTENDS Integers, Sequences, FiniteSets, TLC

VARIABLES
    text,           \* the message being handled
    user,           \* the user who sent it
    pc,             \* "ready" to handle a message, "done" when its reply is due
    entries,        \* split_entries(text) of the handled message
    global_type,    \* infer_global_type(text) of the handled message
    parsed_items,   \* parse_transactions(text, ...) of the handled message
    used_map,       \* the category_map handed to parse_transactions
    reply,          \* the reply of handle_text_message
    CATEGORY_MAP,   \* parser.CATEGORY_MAP, the module-level built-in table
    custom,         \* storage: user -> ordered custom rules <<name, keywords>>
    transactions,   \* storage: the rows of table transactions
    health,         \* the result of financial_health for the handled message
    now             \* the date of datetime.now()

vars == << text, user, pc, entries, global_type, parsed_items, used_map, reply,
           CATEGORY_MAP, custom, transactions, health, now >>

-----------------------------------------------------------------------------
(* Strings *)

Digits == {"0", "1", "2", "3", "4", "5", "6", "7", "8", "9"}

DigitValue == [c \in Digits |->
    CASE c = "0" -> 0 [] c = "1" -> 1 [] c = "2" -> 2 [] c = "3" -> 3 [] c = "4" -> 4
      [] c = "5" -> 5 [] c = "6" -> 6 [] c = "7" -> 7 [] c = "8" -> 8 [] c = "9" -> 9]

\* The characters str.strip() and the pattern \s treat as white space.
Whitespace == {" ", "TAB", "LF"}

\* str.lower() on one character: only the cased letters change.
LowerOf ==
    [c \in {"A", "B", "C", "D", "E", "F", "G", "H", "I", "J", "K", "L", "M",
            "N", "O", "P", "Q", "R", "S", "T", "U", "V", "W", "X", "Y", "Z"} |->
        CASE c = "A" -> "a" [] c = "B" -> "b" [] c = "C" -> "c" [] c = "D" -> "d"
          [] c = "E" -> "e" [] c = "F" -> "f" [] c = "G" -> "g" [] c = "H" -> "h"
          [] c = "I" -> "i" [] c = "J" -> "j" [] c = "K" -> "k" [] c = "L" -> "l"
          [] c = "M" -> "m" [] c = "N" -> "n" [] c = "O" -> "o" [] c = "P" -> "p"
          [] c = "Q" -> "q" [] c = "R" -> "r" [] c = "S" -> "s" [] c = "T" -> "t"
          [] c = "U" -> "u" [] c = "V" -> "v" [] c = "W" -> "w" [] c = "X" -> "x"
          [] c = "Y" -> "y" [] c = "Z" -> "z"]

LowerChar(c) == IF c \in DOMAIN LowerOf THEN LowerOf[c] ELSE c

\* s.lower()
Lower(s) == [i \in 1..Len(s) |-> LowerChar(s[i])]

\* k in s
Contains(s, k) ==
    \/ k = << >>
    \/ \E i \in 0..(Len(s) - Len(k)) :
           s[i + 1] = k[1] /\ SubSeq(s, i + 1, i + Len(k)) = k

\* s.startswith(p)
StartsWith(s, p) == Len(s) >= Len(p) /\ SubSeq(s, 1, Len(p)) = p

\* s.replace(a, b) for single characters a and b
ReplaceChar(s, a, b) == [i \in 1..Len(s) |-> IF s[i] = a THEN b ELSE s[i]]

\* s.replace(a, "") for a single character a
RemoveChar(s, a) == SelectSeq(s, LAMBDA c : c # a)

\* s.strip(chars): the characters of the set are removed from both ends
Strip(s, chars) ==
    LET keep == {i \in 1..Len(s) : s[i] \notin chars}
    IN  IF keep = {} THEN << >>
        ELSE SubSeq(s, CHOOSE i \in keep : \A j \in keep : i <= j,
                       CHOOSE i \in keep : \A j \in keep : i >= j)

\* the position after the run of characters of the set that starts at i
RECURSIVE RunEnd(_, _, _)
RunEnd(s, i, chars) ==
    IF i <= Len(s) /\ s[i] \in chars THEN RunEnd(s, i + 1, chars) ELSE i

-----------------------------------------------------------------------------
(* Decimal numbers *)

RECURSIVE Pow10(_)
Pow10(n) == IF n = 0 THEN 1 ELSE 10 * Pow10(n - 1)

\* int(ds) of a sequence of digits, 0 for the empty sequence
RECURSIVE DigitsValue(_)
DigitsValue(ds) ==
    IF ds = << >> THEN 0
    ELSE 10 * DigitsValue(SubSeq(ds, 1, Len(ds) - 1)) + DigitValue[ds[Len(ds)]]

\* the decimal n / 10^f without trailing zeros in its fraction
RECURSIVE Dec(_, _)
Dec(n, f) ==
    IF f > 0 /\ n % 10 = 0 THEN Dec(n \div 10, f - 1) ELSE [num |-> n, frac |-> f]

DecZero == [num |-> 0, frac |-> 0]

DecAdd(a, b) ==
    LET f == IF a.frac >= b.frac THEN a.frac ELSE b.frac
    IN  Dec(a.num * Pow10(f - a.frac) + b.num * Pow10(f - b.frac), f)

DecSub(a, b) ==
    LET f == IF a.frac >= b.frac THEN a.frac ELSE b.frac
    IN  Dec(a.num * Pow10(f - a.frac) - b.num * Pow10(f - b.frac), f)

\* float(raw) for raw = digits, optionally followed by "." and digits
Float(raw) ==
    LET dot == {i \in 1..Len(raw) : raw[i] = "."}
    IN  IF dot = {} THEN Dec(DigitsValue(raw), 0)
        ELSE LET d == CHOOSE i \in dot : TRUE
             IN  Dec(DigitsValue(SubSeq(raw, 1, d - 1) \o SubSeq(raw, d + 1, Len(raw))),
                     Len(raw) - d)

-----------------------------------------------------------------------------
(* The keyword tables of src/parser.py *)

INCOME_KEYWORDS ==
    << <<"ro_rua", "sara_aa", "yo_yak", "ro_rua", "mai_han_akat", "bo_baimai">>,
       <<"ro_rua", "mai_han_akat", "bo_baimai">>,
       <<"sara_ai_maimalai", "do_dek", "mai_tho", "sara_e", "ngo_ngu", "sara_i", "no_nu">>,
       <<"sara_e", "ngo_ngu", "sara_i", "no_nu", "sara_e", "kho_khai", "mai_tho", "sara_aa">>,
       <<"kho_khai", "sara_aa", "yo_yak", "sara_ai_maimalai", "do_dek", "mai_tho">>,
       <<"sara_o", "bo_baimai", "no_nu", "mai_han_akat", "so_sua">>,
       <<"sara_e", "ngo_ngu", "sara_i", "no_nu", "sara_e", "do_dek", "sara_uee", "o_ang",
         "no_nu">> >>

EXPENSE_KEYWORDS ==
    << <<"ro_rua", "sara_aa", "yo_yak", "cho_chan", "mai_ek", "sara_aa", "yo_yak">>,
       <<"cho_chan", "mai_ek", "sara_aa", "yo_yak">>,
       <<"so_so", "sara_uee", "mai_tho", "o_ang">>,
       <<"sara_o", "o_ang", "no_nu">>,
       <<"kho_khwai", "mai_ek", "sara_aa">>,
       <<"pho_phung", "mai_ek", "o_ang", "no_nu">>,
       <<"sara_e", "to_tao", "sara_i", "mo_ma">> >>

\* the built-in category "food" and its keywords
CatFood == <<"o_ang", "sara_aa", "ho_hip", "sara_aa", "ro_rua">>

KeywordsFood ==
    << <<"kho_khai", "mai_tho", "sara_aa", "wo_waen">>,
       <<"ko_kai", "sara_aa", "sara_ae", "fo_fan">>,
       <<"o_ang", "sara_aa", "ho_hip", "sara_aa", "ro_rua">>,
       <<"kho_khai", "o_ang", "ngo_ngu", "ko_kai", "sara_i", "no_nu">>,
       <<"cho_chang", "sara_aa", "no_nu", "mo_ma">>,
       <<"ho_hip", "mo_ma", "sara_uu", "ko_kai", "ro_rua", "sara_a", "tho_thahan", "sara_a">>,
       <<"ko_kai", "mai_chattawa", "wo_waen", "yo_yak", "sara_e", "to_tao", "sara_ii",
         "mai_chattawa", "yo_yak", "wo_waen">>,
       <<"cho_chang", "sara_aa", "bo_baimai", "sara_uu">>,
       <<"bo_baimai", "sara_u", "fo_fan", "sara_e", "fo_fan", "to_tao", "thanthakhat">>,
       <<"ko_kai", "sara_i", "no_nu">>,
       <<"kho_khwai", "sara_aa", "sara_e", "fo_fan", "mai_ek">>,
       <<"o_ang", "sara_aa", "ho_hip", "sara_aa", "ro_rua", "ko_kai", "lo_ling", "sara_aa",
         "ngo_ngu", "wo_waen", "mai_han_akat", "no_nu">>,
       <<"o_ang", "sara_aa", "ho_hip", "sara_aa", "ro_rua", "sara_e", "yo_yak", "maitaikhu",
         "no_nu">> >>

\* the built-in category "travel" and its keywords
CatTravel == <<"sara_e", "do_dek", "sara_i", "no_nu", "tho_thahan", "sara_aa", "ngo_ngu">>

KeywordsTravel ==
    << <<"sara_e", "do_dek", "sara_i", "no_nu", "tho_thahan", "sara_aa", "ngo_ngu">>,
       <<"kho_khwai", "mai_ek", "sara_aa", "ro_rua", "tho_thung">>,
       <<"kho_khwai", "mai_ek", "sara_aa", "sara_ae", "tho_thahan", "maitaikhu", "ko_kai",
         "so_so", "sara_ii", "mai_ek">>,
       <<"sara_ae", "tho_thahan", "maitaikhu", "ko_kai", "so_so", "sara_ii", "mai_ek">>,
       <<"t", "a", "x", "i">>,
       <<"g", "r", "a", "b">>,
       <<"b", "o", "l", "t">>,
       <<"l", "i", "n", "e", "m", "a", "n">>,
       <<"mo_ma", "o_ang", "sara_ai_maimalai", "so_so">>,
       <<"wo_waen", "sara_i", "no_nu">>,
       <<"ro_rua", "tho_thung", "sara_e", "mo_ma", "lo_ling", "thanthakhat">>,
       <<"ro_rua", "tho_thung", "sara_ai_maimalai", "fo_fan">>,
       <<"b", "t", "s">>,
       <<"m", "r", "t">>,
       <<"no_nu", "mai_tho", "sara_am", "mo_ma", "mai_han_akat", "no_nu">>,
       <<"sara_e", "to_tao", "sara_i", "mo_ma", "no_nu", "mai_tho", "sara_am", "mo_ma",
         "mai_han_akat", "no_nu">>,
       <<"tho_thahan", "sara_aa", "ngo_ngu", "do_dek", "mai_ek", "wo_waen", "no_nu">>,
       <<"kho_khwai", "mai_ek", "sara_aa", "tho_thahan", "sara_aa", "ngo_ngu", "do_dek",
         "mai_ek", "wo_waen", "no_nu">>,
       <<"kho_khwai", "mai_ek", "sara_aa", "cho_chan", "o_ang", "do_dek", "ro_rua", "tho_thung">>,
       <<"tho_thahan", "sara_ii", "mai_ek", "cho_chan", "o_ang", "do_dek", "ro_rua",
         "tho_thung">> >>

\* the built-in category "home" and its keywords
CatHome == <<"bo_baimai", "mai_tho", "sara_aa", "no_nu">>

KeywordsHome ==
    << <<"kho_khwai", "mai_ek", "sara_aa", "sara_e", "cho_chang", "mai_ek", "sara_aa">>,
       <<"kho_khwai", "mai_ek", "sara_aa", "sara_ai_maimalai", "fo_fan">>,
       <<"kho_khwai", "mai_ek", "sara_aa", "no_nu", "mai_tho", "sara_am">>,
       <<"sara_ai_maimalai", "fo_fan">>,
       <<"no_nu", "mai_tho", "sara_am">>,
       <<"sara_e", "no_nu", "maitaikhu", "to_tao">>,
       <<"o_ang", "sara_i", "no_nu", "sara_e", "tho_thahan", "o_ang", "ro_rua", "thanthakhat",
         "sara_e", "no_nu", "maitaikhu", "to_tao">>,
       <<"kho_khwai", "mai_ek", "sara_aa", "sara_o", "tho_thahan", "ro_rua">>,
       <<"kho_khwai", "mai_ek", "sara_aa", "sara_o", "tho_thahan", "ro_rua", "so_sala",
         "mai_han_akat", "pho_phan", "tho_thahan", "thanthakhat">>,
       <<"kho_khwai", "mai_ek", "sara_aa", "sara_ai_maimalai", "fo_fan", "fo_fan", "mai_tho",
         "sara_aa">>,
       <<"kho_khwai", "mai_ek", "sara_aa", "bo_baimai", "mai_tho", "sara_aa", "no_nu">> >>

\* the built-in category "shopping" and its keywords
CatShopping == <<"cho_chang", "mai_tho", "o_ang", "po_pla", "po_pla", "sara_i", "mai_tho", "ngo_ngu">>

KeywordsShopping ==
    << <<"sara_e", "so_sua", "sara_uee", "mai_tho", "o_ang">>,
       <<"ro_rua", "o_ang", "ngo_ngu", "sara_e", "tho_thahan", "mai_tho", "sara_aa">>,
       <<"cho_chang", "mai_tho", "o_ang", "po_pla">>,
       <<"s", "h", "o", "p", "p", "i", "n", "g">>,
       <<"kho_khai", "o_ang", "ngo_ngu", "sara_ai_maimuan", "cho_chang", "mai_tho">>,
       <<"sara_e", "kho_khwai", "ro_rua", "sara_uee", "mai_ek", "o_ang", "ngo_ngu", "so_sua",
         "sara_am", "o_ang", "sara_aa", "ngo_ngu">>,
       <<"ko_kai", "ro_rua", "sara_a", "sara_e", "po_pla", "mai_chattawa", "sara_aa">>,
       <<"kho_khai", "o_ang", "ngo_ngu", "sara_ae", "to_tao", "mai_ek", "ngo_ngu", "bo_baimai",
         "mai_tho", "sara_aa", "no_nu">>,
       <<"cho_chang", "mai_tho", "o_ang", "po_pla", "po_pla", "sara_i", "mai_tho", "ngo_ngu">> >>

\* the built-in category "health" and its keywords
CatHealth == <<"so_sua", "sara_u", "kho_khai", "pho_samphao", "sara_aa", "pho_phan">>

KeywordsHealth ==
    << <<"ho_hip", "mo_ma", "o_ang">>,
       <<"yo_yak", "sara_aa">>,
       <<"sara_o", "ro_rua", "ngo_ngu", "pho_phan", "yo_yak", "sara_aa", "bo_baimai",
         "sara_aa", "lo_ling">>,
       <<"so_sua", "sara_u", "kho_khai", "pho_samphao", "sara_aa", "pho_phan">>,
       <<"kho_khwai", "lo_ling", "sara_i", "no_nu", "sara_i", "ko_kai">>,
       <<"fo_fan", "sara_i", "to_tao", "sara_e", "no_nu", "so_sua">>,
       <<"po_pla", "ro_rua", "sara_a", "ko_kai", "mai_han_akat", "no_nu", "so_sua", "sara_u",
         "kho_khai", "pho_samphao", "sara_aa", "pho_phan">> >>

\* the built-in category "side income" and its keywords
CatSideIncome == <<"ro_rua", "sara_aa", "yo_yak", "sara_ai_maimalai", "do_dek", "mai_tho", "sara_e",
      "so_sua", "ro_rua", "sara_i", "mo_ma">>

KeywordsSideIncome ==
    << <<"fo_fan", "ro_rua", "sara_ii", "sara_ae", "lo_ling", "no_nu", "so_so", "thanthakhat">>,
       <<"kho_khai", "sara_aa", "yo_yak">>,
       <<"kho_khwai", "o_ang", "mo_ma", "mo_ma", "sara_i", "cho_chang", "cho_chang",
         "mai_han_akat", "mai_ek", "no_nu">> >>

\* CATEGORY_MAP as the module defines it: a dict, in insertion order
BUILTIN_CATEGORY_MAP ==
    << <<CatFood, KeywordsFood>>,
       <<CatTravel, KeywordsTravel>>,
       <<CatHome, KeywordsHome>>,
       <<CatShopping, KeywordsShopping>>,
       <<CatHealth, KeywordsHealth>>,
       <<CatSideIncome, KeywordsSideIncome>> >>

\* the default categories of detect_category: general income, general expense
GENERAL_INCOME == <<"ro_rua", "sara_aa", "yo_yak", "ro_rua", "mai_han_akat", "bo_baimai", "tho_thahan",
      "mai_han_akat", "mai_ek", "wo_waen", "sara_ai_maimalai", "po_pla">>

GENERAL_EXPENSE == <<"ro_rua", "sara_aa", "yo_yak", "cho_chan", "mai_ek", "sara_aa", "yo_yak", "tho_thahan",
      "mai_han_akat", "mai_ek", "wo_waen", "sara_ai_maimalai", "po_pla">>

\* the conjunctions " and " and " with " of SPLIT_PATTERN, spaces included
CONJ_AND == <<" ", "sara_ae", "lo_ling", "sara_a", " ">>

CONJ_WITH == <<" ", "ko_kai", "mai_han_akat", "bo_baimai", " ">>

-----------------------------------------------------------------------------
(* src/parser.py *)

\* AMOUNT_PATTERN.search(text): the first match of \d[\d,]*(?:\.\d+)? as
\* << group(1) >>, or << >> when no character of the text is a digit.
AmountMatch(s) ==
    LET ds == {i \in 1..Len(s) : s[i] \in Digits}
    IN  IF ds = {} THEN << >>
        ELSE LET b == CHOOSE i \in ds : \A j \in ds : i <= j
                 e == RunEnd(s, b + 1, Digits \cup {","})
                 f == IF e + 1 <= Len(s) /\ s[e] = "." /\ s[e + 1] \in Digits
                      THEN RunEnd(s, e + 1, Digits)
                      ELSE e
             IN  << SubSeq(s, b, f - 1) >>

\* Faulty variant of parse_amount: an amount of 0 is accepted.
parse_amount_zero(s) ==
    LET match == AmountMatch(s)
    IN  IF match = << >> THEN << >>
        ELSE LET raw == RemoveChar(match[1], ",")
                 amount == Float(raw)
             IN  IF amount.num < 0 THEN << >> ELSE << amount >>

\* the amount of the first numeric token, << >> for None
parse_amount(s) ==
    LET match == AmountMatch(s)
    IN  IF match = << >> THEN << >>
        ELSE LET raw == RemoveChar(match[1], ",")
                 amount == Float(raw)
             IN  IF amount.num <= 0 THEN << >> ELSE << amount >>

type_hint(s) ==
    LET lowered == Lower(s)
        has_income == \E i \in DOMAIN INCOME_KEYWORDS : Contains(lowered, INCOME_KEYWORDS[i])
        has_expense == \E i \in DOMAIN EXPENSE_KEYWORDS : Contains(lowered, EXPENSE_KEYWORDS[i])
        stripped == Strip(lowered, Whitespace)
    IN  IF StartsWith(stripped, <<"+">>) THEN "income"
        ELSE IF StartsWith(stripped, <<"-">>) THEN "expense"
        ELSE IF has_income /\ has_expense THEN "None"
        ELSE IF has_income THEN "income"
        ELSE IF has_expense THEN "expense"
        ELSE "None"

\* type_hint(text) or fallback_type
detect_type(s, fallback_type) ==
    LET hint == type_hint(s)
    IN  IF hint # "None" THEN hint ELSE fallback_type

\* any(keyword.lower() in lowered or keyword.lower().replace(" ", "") in compact ...)
KeywordsMatch(keywords, lowered, compact) ==
    \E i \in DOMAIN keywords :
        LET keyword == Lower(keywords[i])
        IN  Contains(lowered, keyword) \/ Contains(compact, RemoveChar(keyword, " "))

\* Faulty variant of detect_category: the loop does not stop at the first rule
\* that matches, so the last one that matches is returned.
detect_category_last(s, txn_type, category_map) ==
    LET active_map == IF category_map = << >> THEN CATEGORY_MAP ELSE category_map
        lowered == Lower(s)
        compact == RemoveChar(lowered, " ")
        hits == {i \in DOMAIN active_map : KeywordsMatch(active_map[i][2], lowered, compact)}
    IN  IF hits # {}
        THEN active_map[CHOOSE i \in hits : \A j \in hits : i >= j][1]
        ELSE IF txn_type = "income" THEN GENERAL_INCOME ELSE GENERAL_EXPENSE

\* category_map is a dict in insertion order, << >> for None or the empty dict
detect_category(s, txn_type, category_map) ==
    LET active_map == IF category_map = << >> THEN CATEGORY_MAP ELSE category_map
        lowered == Lower(s)
        compact == RemoveChar(lowered, " ")
        hits == {i \in DOMAIN active_map : KeywordsMatch(active_map[i][2], lowered, compact)}
    IN  IF hits # {}
        THEN active_map[CHOOSE i \in hits : \A j \in hits : i <= j][1]
        ELSE IF txn_type = "income" THEN GENERAL_INCOME ELSE GENERAL_EXPENSE

\* re.sub(r"\s+", " ", text): every run of white space becomes one space
RECURSIVE CollapseSpace(_, _)
CollapseSpace(s, i) ==
    IF i > Len(s) THEN << >>
    ELSE IF s[i] \in Whitespace
         THEN << " " >> \o CollapseSpace(s, RunEnd(s, i, Whitespace))
         ELSE << s[i] >> \o CollapseSpace(s, i + 1)

NOTE_LIMIT == 120

clean_note(s) ==
    LET t == Strip(CollapseSpace(s, 1), Whitespace)
    IN  SubSeq(t, 1, IF Len(t) < NOTE_LIMIT THEN Len(t) ELSE NOTE_LIMIT)

\* the length of the match of SPLIT_PATTERN at position i, 0 when there is none
SeparatorAt(s, i) ==
    IF s[i] \in {"LF", ",", ";"} THEN 1
    ELSE IF StartsWith(SubSeq(s, i, Len(s)), CONJ_AND) THEN Len(CONJ_AND)
    ELSE IF StartsWith(SubSeq(s, i, Len(s)), CONJ_WITH) THEN Len(CONJ_WITH)
    ELSE 0

\* SPLIT_PATTERN.split(s): the pieces between the matches, scanning left to right
\* from position i, the current piece starting at start
RECURSIVE PatternSplit(_, _, _)
PatternSplit(s, i, start) ==
    IF i > Len(s) THEN << SubSeq(s, start, Len(s)) >>
    ELSE LET m == SeparatorAt(s, i)
         IN  IF m > 0
             THEN << SubSeq(s, start, i - 1) >> \o PatternSplit(s, i + m, i + m)
             ELSE PatternSplit(s, i + 1, start)

\* the characters part.strip(...) removes: space, dash, bullet, tab
DECORATION == {" ", "-", "BULLET", "TAB"}

split_entries(s) ==
    LET normalized == ReplaceChar(s, "FWCOMMA", ",")
        pieces == PatternSplit(normalized, 1, 1)
        parts == [i \in 1..Len(pieces) |-> Strip(pieces[i], DECORATION)]
    IN  SelectSeq(parts, LAMBDA part : part # << >>)

\* Faulty variant of infer_global_type: the branch for several distinct hints is
\* missing, so the hint of the whole text is used for them as well.
infer_global_type_raw(s) ==
    LET es == split_entries(s)
        unique_hints == {type_hint(es[i]) : i \in DOMAIN es} \ {"None"}
    IN  IF Cardinality(unique_hints) = 1 THEN CHOOSE h \in unique_hints : TRUE
        ELSE type_hint(s)

infer_global_type(s) ==
    LET es == split_entries(s)
        unique_hints == {type_hint(es[i]) : i \in DOMAIN es} \ {"None"}
    IN  IF Cardinality(unique_hints) = 1 THEN CHOOSE h \in unique_hints : TRUE
        ELSE IF Cardinality(unique_hints) > 1 THEN "None"
        ELSE type_hint(s)

\* fallback_type is "None" when the caller gives none; the result is << >> for None
parse_single_transaction(s, fallback_type, category_map) ==
    LET amount == parse_amount(s)
    IN  IF amount = << >> THEN << >>
        ELSE LET txn_type == detect_type(s, IF fallback_type = "None" THEN "expense"
                                            ELSE fallback_type)
             IN  << [txn_type |-> txn_type,
                     amount   |-> amount[1],
                     category |-> detect_category(s, txn_type, category_map),
                     note     |-> clean_note(s)] >>

\* Faulty variant of ParseEntries: the message-wide type is not handed down.
RECURSIVE ParseEntries_no_fallback(_, _, _, _)
ParseEntries_no_fallback(es, i, gtype, category_map) ==
    IF i > Len(es) THEN << >>
    ELSE parse_single_transaction(es[i], "None", category_map)
             \o ParseEntries_no_fallback(es, i + 1, gtype, category_map)

\* Faulty variant of ParseEntries: each result is put in front of the list.
RECURSIVE ParseEntries_prepend(_, _, _, _)
ParseEntries_prepend(es, i, gtype, category_map) ==
    IF i > Len(es) THEN << >>
    ELSE LET entry_fallback == IF type_hint(es[i]) = "None" THEN gtype ELSE "None"
         IN  ParseEntries_prepend(es, i + 1, gtype, category_map)
                 \o parse_single_transaction(es[i], entry_fallback, category_map)

\* the loop of parse_transactions over entries es from position i on
RECURSIVE ParseEntries(_, _, _, _)
ParseEntries(es, i, gtype, category_map) ==
    IF i > Len(es) THEN << >>
    ELSE LET entry_fallback == IF type_hint(es[i]) = "None" THEN gtype ELSE "None"
         IN  parse_single_transaction(es[i], entry_fallback, category_map)
                 \o ParseEntries(es, i + 1, gtype, category_map)

\* Faulty variant of parse_transactions: a fragment without an amount is taken
\* for an error and empties the result.
parse_transactions_strict(s, category_map) ==
    LET es == split_entries(s)
    IN  IF es = << >> \/ \E i \in DOMAIN es : parse_amount(es[i]) = << >> THEN << >>
        ELSE ParseEntries(es, 1, infer_global_type(s), category_map)

parse_transactions(s, category_map) ==
    LET es == split_entries(s)
    IN  IF es = << >> THEN << >>
        ELSE LET parsed_list == ParseEntries(es, 1, infer_global_type(s), category_map)
             IN  IF parsed_list # << >> THEN parsed_list
                 ELSE parse_single_transaction(s, "None", category_map)

-----------------------------------------------------------------------------
(* The texts of src/app.py and src/db.py *)

\* the prefix "add category"
ADD_CATEGORY_PREFIX ==
    <<"sara_e", "pho_phan", "sara_i", "mai_ek", "mo_ma", "ho_hip", "mo_ma", "wo_waen",
      "do_dek", "ho_hip", "mo_ma", "sara_uu", "mai_ek">>

\* the prefix "delete category"
DELETE_CATEGORY_PREFIX ==
    <<"lo_ling", "bo_baimai", "ho_hip", "mo_ma", "wo_waen", "do_dek", "ho_hip", "mo_ma",
      "sara_uu", "mai_ek">>

\* the commands that list the categories
CATEGORY_COMMANDS ==
    { <<"to_tao", "ro_rua", "wo_waen", "cho_chan", "so_sua", "o_ang", "bo_baimai", "ho_hip",
        "mo_ma", "wo_waen", "do_dek", "ho_hip", "mo_ma", "sara_uu", "mai_ek">>,
      <<"do_dek", "sara_uu", "ho_hip", "mo_ma", "wo_waen", "do_dek", "ho_hip", "mo_ma",
        "sara_uu", "mai_ek">>,
      <<"ro_rua", "sara_aa", "yo_yak", "ko_kai", "sara_aa", "ro_rua", "ho_hip", "mo_ma",
        "wo_waen", "do_dek", "ho_hip", "mo_ma", "sara_uu", "mai_ek">> }

\* the commands of line 156: the summary of today
SUMMARY_TODAY_COMMANDS ==
    { <<"so_sua", "ro_rua", "sara_u", "po_pla">>,
      <<"so_sua", "ro_rua", "sara_u", "po_pla", "wo_waen", "mai_han_akat", "no_nu", "no_nu",
        "sara_ii", "mai_tho">>,
      <<"s", "u", "m", "m", "a", "r", "y">> }

\* the commands of line 165: the summary of the month
SUMMARY_MONTH_COMMANDS ==
    { <<"so_sua", "ro_rua", "sara_u", "po_pla", "sara_e", "do_dek", "sara_uee", "o_ang",
        "no_nu", "no_nu", "sara_ii", "mai_tho">>,
      <<"s", "u", "m", "m", "a", "r", "y", " ", "m", "o", "n", "t", "h">>,
      <<"sara_e", "do_dek", "sara_uee", "o_ang", "no_nu", "no_nu", "sara_ii", "mai_tho">> }

\* the commands of line 174: the financial health
HEALTH_COMMANDS ==
    { <<"so_sua", "sara_u", "kho_khai", "pho_samphao", "sara_aa", "pho_phan", "ko_kai",
        "sara_aa", "ro_rua", "sara_e", "ngo_ngu", "sara_i", "no_nu", "kho_khai", "o_ang",
        "ngo_ngu", "cho_ching", "mai_han_akat", "no_nu">>,
      <<"so_sua", "sara_u", "kho_khai", "pho_samphao", "sara_aa", "pho_phan", "ko_kai",
        "sara_aa", "ro_rua", "sara_e", "ngo_ngu", "sara_i", "no_nu">>,
      <<"f", "i", "n", "a", "n", "c", "i", "a", "l", " ", "h", "e", "a", "l", "t", "h">> }

\* the text shown for a ratio that is None: "not computable"
NOT_COMPUTABLE ==
    <<"kho_khwai", "sara_am", "no_nu", "wo_waen", "no_nen", "sara_ai_maimalai", "mo_ma",
      "mai_ek", "sara_ai_maimalai", "do_dek", "mai_tho">>

\* the scores of financial_health: "needs attention", "insufficient data", "excellent",
\* "good", "fair", "needs adjustment"
SCORE_NEEDS_ATTENTION ==
    <<"to_tao", "mai_tho", "o_ang", "ngo_ngu", "ro_rua", "sara_a", "wo_waen", "mai_han_akat",
      "ngo_ngu">>

SCORE_INSUFFICIENT_DATA ==
    <<"yo_yak", "mai_han_akat", "ngo_ngu", "sara_ai_maimalai", "mo_ma", "mai_ek", "mo_ma",
      "sara_ii", "kho_khai", "mai_tho", "o_ang", "mo_ma", "sara_uu", "lo_ling", "pho_phan",
      "o_ang">>

SCORE_EXCELLENT ==
    <<"do_dek", "sara_ii", "mo_ma", "sara_aa", "ko_kai">>

SCORE_GOOD ==
    <<"do_dek", "sara_ii">>

SCORE_FAIR ==
    <<"pho_phan", "o_ang", "sara_ai_maimuan", "cho_chang", "mai_tho">>

SCORE_NEEDS_ADJUSTMENT ==
    <<"to_tao", "mai_tho", "o_ang", "ngo_ngu", "po_pla", "ro_rua", "mai_han_akat", "bo_baimai">>

\* the tips of financial_health, in the order of the scores
TIP_NEEDS_ATTENTION ==
    <<"sara_e", "do_dek", "sara_uee", "o_ang", "no_nu", "no_nu", "sara_ii", "mai_tho",
      "yo_yak", "mai_han_akat", "ngo_ngu", "sara_ai_maimalai", "mo_ma", "mai_ek", "pho_phan",
      "bo_baimai", "ro_rua", "sara_aa", "yo_yak", "ro_rua", "mai_han_akat", "bo_baimai", " ",
      "sara_ae", "to_tao", "mai_ek", "mo_ma", "sara_ii", "ro_rua", "sara_aa", "yo_yak",
      "cho_chan", "mai_ek", "sara_aa", "yo_yak", " ", "lo_ling", "o_ang", "ngo_ngu", "to_tao",
      "mai_han_akat", "mai_tho", "ngo_ngu", "ngo_ngu", "bo_baimai", "ro_rua", "sara_aa",
      "yo_yak", "cho_chan", "mai_ek", "sara_aa", "yo_yak", "to_tao", "mai_ek", "o_ang",
      "wo_waen", "mai_han_akat", "no_nu">>

TIP_INSUFFICIENT_DATA ==
    <<"sara_e", "ro_rua", "sara_i", "mai_ek", "mo_ma", "bo_baimai", "mai_han_akat", "no_nu",
      "tho_thahan", "sara_ue", "ko_kai", "ro_rua", "sara_aa", "yo_yak", "ro_rua",
      "mai_han_akat", "bo_baimai", "ro_rua", "sara_aa", "yo_yak", "cho_chan", "mai_ek",
      "sara_aa", "yo_yak", "to_tao", "mai_ek", "o_ang", "sara_e", "no_nu", "sara_uee",
      "mai_ek", "o_ang", "ngo_ngu", "ko_kai", "mai_ek", "o_ang", "no_nu", " ", "sara_e",
      "pho_phan", "sara_uee", "mai_ek", "o_ang", "wo_waen", "sara_i", "sara_e", "kho_khwai",
      "ro_rua", "sara_aa", "sara_a", "ho_hip", "thanthakhat", "sara_ai_maimuan", "ho_hip",
      "mai_tho", "sara_ae", "mo_ma", "mai_ek", "no_nu", "kho_khai", "sara_ue", "mai_tho",
      "no_nu">>

TIP_EXCELLENT ==
    <<"ro_rua", "mai_han_akat", "ko_kai", "so_rusi", "sara_aa", "wo_waen", "sara_i", "no_nu",
      "mai_han_akat", "yo_yak", "ko_kai", "sara_aa", "ro_rua", "o_ang", "o_ang", "mo_ma",
      "to_tao", "mai_ek", "o_ang", "sara_e", "no_nu", "sara_uee", "mai_ek", "o_ang", "ngo_ngu",
      "sara_ai_maimalai", "do_dek", "mai_tho", "sara_e", "lo_ling", "yo_yak">>

TIP_GOOD ==
    <<"lo_ling", "o_ang", "ngo_ngu", "lo_ling", "do_dek", "ho_hip", "mo_ma", "wo_waen",
      "do_dek", "ro_rua", "sara_aa", "yo_yak", "cho_chan", "mai_ek", "sara_aa", "yo_yak",
      "tho_thahan", "sara_ii", "mai_ek", "so_sua", "sara_uu", "ngo_ngu", "so_sua", "sara_u",
      "do_dek", "lo_ling", "ngo_ngu", "o_ang", "sara_ii", "ko_kai", "sara_e", "lo_ling",
      "maitaikhu", "ko_kai", "no_nu", "mai_tho", "o_ang", "yo_yak", "sara_e", "pho_phan",
      "sara_uee", "mai_ek", "o_ang", "sara_e", "pho_phan", "sara_i", "mai_ek", "mo_ma",
      "sara_e", "ngo_ngu", "sara_i", "no_nu", "o_ang", "o_ang", "mo_ma">>

TIP_FAIR ==
    <<"sara_e", "pho_phan", "sara_i", "mai_ek", "mo_ma", "sara_e", "ngo_ngu", "sara_i",
      "no_nu", "o_ang", "o_ang", "mo_ma", "o_ang", "mai_han_akat", "to_tao", "sara_o", "no_nu",
      "mo_ma", "mai_han_akat", "to_tao", "sara_i", " ", "5", "-", "1", "0", "%", " ",
      "kho_khai", "o_ang", "ngo_ngu", "ro_rua", "sara_aa", "yo_yak", "ro_rua", "mai_han_akat",
      "bo_baimai", "tho_thahan", "sara_u", "ko_kai", "kho_khwai", "ro_rua", "mai_han_akat",
      "mai_tho", "ngo_ngu", "tho_thahan", "sara_ii", "mai_ek", "sara_e", "ngo_ngu", "sara_i",
      "no_nu", "sara_e", "kho_khai", "mai_tho", "sara_aa">>

TIP_NEEDS_ADJUSTMENT ==
    <<"ro_rua", "sara_aa", "yo_yak", "cho_chan", "mai_ek", "sara_aa", "yo_yak", "mo_ma",
      "sara_aa", "ko_kai", "ko_kai", "wo_waen", "mai_ek", "sara_aa", "ro_rua", "sara_aa",
      "yo_yak", "ro_rua", "mai_han_akat", "bo_baimai", " ", "kho_khwai", "wo_waen", "ro_rua",
      "lo_ling", "do_dek", "kho_khwai", "mai_ek", "sara_aa", "sara_ai_maimuan", "cho_chang",
      "mai_tho", "cho_chan", "mai_ek", "sara_aa", "yo_yak", "sara_ai_maimalai", "mo_ma",
      "mai_ek", "cho_chan", "sara_am", "sara_e", "po_pla", "maitaikhu", "no_nu", "sara_ae",
      "lo_ling", "sara_a", "to_tao", "mai_han_akat", "mai_tho", "ngo_ngu", "sara_e",
      "pho_phan", "do_dek", "sara_aa", "no_nu", "ro_rua", "sara_aa", "yo_yak", "wo_waen",
      "mai_han_akat", "no_nu">>

\* the top expense category when there is no expense: "no data"
NO_DATA ==
    <<"sara_ai_maimalai", "mo_ma", "mai_ek", "mo_ma", "sara_ii", "kho_khai", "mai_tho",
      "o_ang", "mo_ma", "sara_uu", "lo_ling">>

-----------------------------------------------------------------------------
(* src/db.py *)

\* A date is [month |-> m, day |-> d]; ISO dates compare as these pairs do.
DateLE(a, b) == a.month < b.month \/ (a.month = b.month /\ a.day <= b.day)

\* now.replace(day=1).date()
FirstOfMonth(today) == [month |-> today.month, day |-> 1]

\* the table after the INSERT of add_transaction; created_at is the current date
add_transaction(rows, user_id, txn_type, amount, category, note, today) ==
    Append(rows, [user_id |-> user_id, txn_type |-> txn_type, amount |-> amount,
                  category |-> category, note |-> note, created_at |-> today])

\* WHERE user_id = ? AND substr(created_at, 1, 10) >= ? AND substr(created_at, 1, 10) <= ?
InRange(row, user_id, start_date, end_date) ==
    /\ row.user_id = user_id
    /\ DateLE(start_date, row.created_at)
    /\ DateLE(row.created_at, end_date)

\* COALESCE(SUM(amount), 0) over rows
RECURSIVE SumAmounts(_)
SumAmounts(rs) ==
    IF rs = << >> THEN DecZero ELSE DecAdd(Head(rs).amount, SumAmounts(Tail(rs)))

summary_range(rows, user_id, start_date, end_date) ==
    LET income == SumAmounts(SelectSeq(rows, LAMBDA r :
                      InRange(r, user_id, start_date, end_date) /\ r.txn_type = "income"))
        expense == SumAmounts(SelectSeq(rows, LAMBDA r :
                      InRange(r, user_id, start_date, end_date) /\ r.txn_type = "expense"))
    IN  [income |-> income, expense |-> expense, balance |-> DecSub(income, expense)]

summary_today(rows, user_id, today) == summary_range(rows, user_id, today, today)

summary_month(rows, user_id, today) ==
    summary_range(rows, user_id, FirstOfMonth(today), today)

\* (a / b) * 100 for b > 0, as the fraction num / den
Percent(a, b) ==
    LET f == IF a.frac >= b.frac THEN a.frac ELSE b.frac
    IN  [num |-> 100 * a.num * Pow10(f - a.frac), den |-> b.num * Pow10(f - b.frac)]

\* rate >= k for a fraction with den > 0
RateAtLeast(rate, k) == rate.num >= k * rate.den

\* The rows GROUP BY category ORDER BY total DESC LIMIT 1 may return: the
\* categories of the user's expenses in the range with the largest total, each
\* with that total.  The category of a stored row is never NULL.
TopExpense(rows, user_id, start_date, end_date) ==
    LET expenses == SelectSeq(rows, LAMBDA r :
                        InRange(r, user_id, start_date, end_date) /\ r.txn_type = "expense")
        cats == {expenses[i].category : i \in DOMAIN expenses}
        total(c) == SumAmounts(SelectSeq(expenses, LAMBDA r : r.category = c))
    IN  {<<c, total(c)>> : c \in {c \in cats : \A d \in cats : DecSub(total(c), total(d)).num >= 0}}

\* Faulty variant of ScoreOf: the thresholds 30, 10 and 0 are exclusive.
ScoreOf_exclusive(income, expense, savings_rate) ==
    LET above(k) == savings_rate[1].num > k * savings_rate[1].den
    IN  IF income.num <= 0 /\ expense.num > 0
        THEN [score |-> SCORE_NEEDS_ATTENTION, tip |-> TIP_NEEDS_ATTENTION]
        ELSE IF savings_rate = << >>
        THEN [score |-> SCORE_INSUFFICIENT_DATA, tip |-> TIP_INSUFFICIENT_DATA]
        ELSE IF above(30) THEN [score |-> SCORE_EXCELLENT, tip |-> TIP_EXCELLENT]
        ELSE IF above(10) THEN [score |-> SCORE_GOOD, tip |-> TIP_GOOD]
        ELSE IF above(0) THEN [score |-> SCORE_FAIR, tip |-> TIP_FAIR]
        ELSE [score |-> SCORE_NEEDS_ADJUSTMENT, tip |-> TIP_NEEDS_ADJUSTMENT]

\* the score and the tip: the chain of lines 118 to 135
ScoreOf(income, expense, savings_rate) ==
    IF income.num <= 0 /\ expense.num > 0
    THEN [score |-> SCORE_NEEDS_ATTENTION, tip |-> TIP_NEEDS_ATTENTION]
    ELSE IF savings_rate = << >>
    THEN [score |-> SCORE_INSUFFICIENT_DATA, tip |-> TIP_INSUFFICIENT_DATA]
    ELSE IF RateAtLeast(savings_rate[1], 30)
    THEN [score |-> SCORE_EXCELLENT, tip |-> TIP_EXCELLENT]
    ELSE IF RateAtLeast(savings_rate[1], 10)
    THEN [score |-> SCORE_GOOD, tip |-> TIP_GOOD]
    ELSE IF RateAtLeast(savings_rate[1], 0)
    THEN [score |-> SCORE_FAIR, tip |-> TIP_FAIR]
    ELSE [score |-> SCORE_NEEDS_ADJUSTMENT, tip |-> TIP_NEEDS_ADJUSTMENT]

\* Faulty variant of Ratios: a ratio that cannot be computed is reported as 0.
Ratios_zero(s) ==
    IF s.income.num > 0
    THEN [savings_rate |-> << Percent(s.balance, s.income) >>,
          expense_ratio |-> << Percent(s.expense, s.income) >>]
    ELSE [savings_rate |-> << [num |-> 0, den |-> 1] >>,
          expense_ratio |-> << [num |-> 0, den |-> 1] >>]

\* savings_rate and expense_ratio: lines 112 to 116, << >> for None
Ratios(s) ==
    IF s.income.num > 0
    THEN [savings_rate |-> << Percent(s.balance, s.income) >>,
          expense_ratio |-> << Percent(s.expense, s.income) >>]
    ELSE [savings_rate |-> << >>, expense_ratio |-> << >>]

\* the dicts financial_health may return: one for each row the top query may return
financial_health(rows, user_id, today) ==
    LET start_date == FirstOfMonth(today)
        s == summary_range(rows, user_id, start_date, today)
        count == Len(SelectSeq(rows, LAMBDA r : InRange(r, user_id, start_date, today)))
        tops == TopExpense(rows, user_id, start_date, today)
        ratios == Ratios(s)
        verdict == ScoreOf(s.income, s.expense, ratios.savings_rate)
    IN  {[income_month |-> s.income,
          expense_month |-> s.expense,
          balance_month |-> s.balance,
          savings_rate |-> ratios.savings_rate,
          expense_ratio |-> ratios.expense_ratio,
          transaction_count_month |-> count,
          top_expense_category |-> top[1],
          top_expense_amount |-> top[2],
          score |-> verdict.score,
          tip |-> verdict.tip] :
         top \in IF tops = {} THEN {<<NO_DATA, DecZero>>} ELSE tops}

-----------------------------------------------------------------------------
(* The storage of custom categories.  src/app.py imports                     *)
(* list_custom_categories, add_or_update_custom_category and                 *)
(* delete_custom_category from db, and src/db.py does not hold them: they are *)
(* modelled from the contract of the storage collaborator.  The store maps a *)
(* user to the ordered rules << name, keywords >> of that user; a new rule   *)
(* goes to the end and an updated rule keeps its place.                      *)

Users == {"u1", "u2"}

list_custom_categories(store, user_id) == store[user_id]

\* the index of the rule of that name, 0 when there is none
IndexOf(rules, name) ==
    IF \E i \in DOMAIN rules : rules[i][1] = name
    THEN CHOOSE i \in DOMAIN rules : rules[i][1] = name
    ELSE 0

add_or_update_custom_category(store, user_id, name, keywords) ==
    LET rules == store[user_id]
        at == IndexOf(rules, name)
    IN  [store   |-> [store EXCEPT ![user_id] =
                         IF at = 0 THEN Append(rules, <<name, keywords>>)
                         ELSE [rules EXCEPT ![at] = <<name, keywords>>]],
         created |-> at = 0]

delete_custom_category(store, user_id, name) ==
    [store   |-> [store EXCEPT ![user_id] = SelectSeq(@, LAMBDA rule : rule[1] # name)],
     removed |-> IndexOf(store[user_id], name) # 0]

-----------------------------------------------------------------------------
(* src/app.py *)

\* d[name] = keywords on a dict in insertion order: a key the dict has keeps its
\* place, a new key goes to the end
DictSet(d, name, keywords) ==
    IF IndexOf(d, name) # 0
    THEN [d EXCEPT ![IndexOf(d, name)] = <<name, keywords>>]
    ELSE Append(d, <<name, keywords>>)

\* the loop of build_user_category_map over the custom rules from position i on
RECURSIVE MergeRules(_, _, _)
MergeRules(category_map, rules, i) ==
    IF i > Len(rules) THEN category_map
    ELSE MergeRules(DictSet(category_map, rules[i][1], rules[i][2]), rules, i + 1)

\* Faulty variant of build_user_category_map: a built-in rule is not replaced.
build_user_category_map_keep(table, rules) ==
    [category_map |-> MergeRules(table,
                          SelectSeq(rules, LAMBDA rule : IndexOf(table, rule[1]) = 0), 1),
     table |-> table]

\* Faulty variant of build_user_category_map: the rules are merged into the
\* module-level table itself instead of a copy.
build_user_category_map_inplace(table, rules) ==
    [category_map |-> MergeRules(table, rules, 1),
     table |-> MergeRules(table, rules, 1)]

\* Faulty variant of build_user_category_map: the custom rules with new names
\* are put before the built-in rules.
build_user_category_map_front(table, rules) ==
    [category_map |->
         SelectSeq(rules, LAMBDA rule : IndexOf(table, rule[1]) = 0)
             \o MergeRules(table, SelectSeq(rules, LAMBDA rule : IndexOf(table, rule[1]) # 0), 1),
     table |-> table]

\* build_user_category_map(user_id), rules being list_custom_categories(user_id):
\* the merged dict, and the module-level table after the call, which is copied
\* and not written to
build_user_category_map(table, rules) ==
    [category_map |-> MergeRules(table, rules, 1),
     table |-> table]

\* re.split(r"[,\|]", s): the pieces between the characters of the set, scanning
\* from position i, the current piece starting at start
RECURSIVE SplitOnChars(_, _, _, _)
SplitOnChars(s, chars, i, start) ==
    IF i > Len(s) THEN << SubSeq(s, start, Len(s)) >>
    ELSE IF s[i] \in chars
         THEN << SubSeq(s, start, i - 1) >> \o SplitOnChars(s, chars, i + 1, i + 1)
         ELSE SplitOnChars(s, chars, i + 1, start)

\* the index of the first character c of s, 0 when there is none
FirstIndex(s, c) ==
    IF \E i \in DOMAIN s : s[i] = c
    THEN CHOOSE i \in DOMAIN s : s[i] = c /\ \A j \in 1..(i - 1) : s[j] # c
    ELSE 0

\* << [name, keywords] >>, or << >> for None
parse_add_category_command(s) ==
    LET body == Strip(SubSeq(s, Len(ADD_CATEGORY_PREFIX) + 1, Len(s)), Whitespace)
        cut == IF FirstIndex(body, "=") # 0 THEN FirstIndex(body, "=")
               ELSE FirstIndex(body, ":")
        name_part == IF cut # 0 THEN SubSeq(body, 1, cut - 1) ELSE body
        keywords_part == IF cut # 0 THEN SubSeq(body, cut + 1, Len(body)) ELSE body
        name == Strip(name_part, Whitespace)
        pieces == SplitOnChars(keywords_part, {",", "|"}, 1, 1)
        stripped == [i \in DOMAIN pieces |-> Lower(Strip(pieces[i], Whitespace))]
        keywords == SelectSeq(stripped, LAMBDA kw : kw # << >>)
    IN  IF body = << >> \/ name = << >> THEN << >>
        ELSE << [name |-> name,
                 keywords |-> IF keywords = << >> THEN << Lower(name) >> ELSE keywords] >>

\* << name >>, or << >> for None
parse_delete_category_command(s) ==
    LET name == Strip(SubSeq(s, Len(DELETE_CATEGORY_PREFIX) + 1, Len(s)), Whitespace)
    IN  IF name = << >> THEN << >> ELSE << name >>

DigitChar == <<"0", "1", "2", "3", "4", "5", "6", "7", "8", "9">>

\* str(n) for n >= 0
RECURSIVE NatDigits(_)
NatDigits(n) ==
    IF n < 10 THEN << DigitChar[n + 1] >>
    ELSE NatDigits(n \div 10) \o << DigitChar[(n % 10) + 1] >>

\* the digits with a comma before every group of three: the "," of a format
RECURSIVE Grouped(_)
Grouped(ds) ==
    IF Len(ds) <= 3 THEN ds
    ELSE Grouped(SubSeq(ds, 1, Len(ds) - 3)) \o <<",">> \o SubSeq(ds, Len(ds) - 2, Len(ds))

\* f"{x:,.2f}" for x = num / den, den > 0: rounded to two decimals, a tie to even
FormatFixed2(num, den) ==
    LET mag == IF num < 0 THEN -num ELSE num
        q == (mag * 100) \div den
        r == (mag * 100) % den
        h == IF 2 * r > den \/ (2 * r = den /\ q % 2 = 1) THEN q + 1 ELSE q
    IN  (IF num < 0 THEN <<"-">> ELSE << >>)
            \o Grouped(NatDigits(h \div 100))
            \o <<".">> \o << DigitChar[((h % 100) \div 10) + 1], DigitChar[(h % 10) + 1] >>

\* f"{amount:,.2f}" for a decimal
FormatAmount(a) == FormatFixed2(a.num, Pow10(a.frac))

\* f"{ratio:,.2f}%" if isinstance(ratio, float) else the text "not computable"
RatioText(ratio) ==
    IF ratio # << >> THEN FormatFixed2(ratio[1].num, ratio[1].den) \o <<"%">>
    ELSE NOT_COMPUTABLE

-----------------------------------------------------------------------------
(* The messages the specifications draw from *)

\* the concatenation of a sequence of strings
RECURSIVE Concat(_)
Concat(ws) == IF ws = << >> THEN << >> ELSE Head(ws) \o Concat(Tail(ws))

\* every text of at most n pieces of the set
TextsOf(pieces, n) == {Concat(ws) : ws \in UNION {[1..k -> pieces] : k \in 0..n}}

\* every text of exactly n fragments of the set, joined by separators of the set
RECURSIVE Joined(_, _, _)
Joined(fragments, seps, n) ==
    IF n = 1 THEN fragments
    ELSE {m \o sep \o f : m \in Joined(fragments, seps, n - 1), sep \in seps, f \in fragments}

KW_INCOME == INCOME_KEYWORDS[2]

KW_EXPENSE == EXPENSE_KEYWORDS[2]

\* the most fragments of a message of signs and keywords
MaxTypeEntries == 2

\* a fragment is an optional sign, then keywords, then an optional amount
TypeFragments ==
    {sign \o words \o amount :
        sign \in {<< >>, <<"+">>, <<"-">>},
        words \in {<< >>, KW_INCOME, KW_EXPENSE, KW_INCOME \o KW_EXPENSE},
        amount \in {<< >>, <<"7">>}}

TypeMessages ==
    {<< >>} \cup UNION {Joined(TypeFragments, {<<",">>}, n) : n \in 1..MaxTypeEntries}

\* the most fragments of a message of amounts and separators
MaxEntries == 3

\* fragments with no amount, a rejected amount, an amount, and two numbers
EntryFragments ==
    {<<"x">>, <<"0">>, <<"7">>, <<"3", "0">>, <<"7", "x", "3", "0">>}

EntrySeparators == {<<",">>, <<"FWCOMMA">>, CONJ_AND}

EntryMessages ==
    {<< >>} \cup UNION {Joined(EntryFragments, EntrySeparators, n) : n \in 1..MaxEntries}

\* the most characters of a message of amounts
MaxChars == 5

AmountChars == {<<"0">>, <<"7">>, <<",">>, <<".">>, <<"x">>}

AmountMessages == TextsOf(AmountChars, MaxChars)

\* the words of a fragment to categorise: none, a keyword of food, "petrol" (a
\* keyword of travel that holds "water", a keyword of home), "water", "sold" (a
\* keyword of side income), a keyword of travel with spaces in it, one in
\* capitals, and a word no rule has
WORD_PETROL == <<"no_nu", "mai_tho", "sara_am", "mo_ma", "mai_han_akat", "no_nu">>

WORD_WATER == <<"no_nu", "mai_tho", "sara_am">>

WORD_SOLD == <<"kho_khai", "sara_aa", "yo_yak">>

CategoryWords ==
    { << >>, KeywordsFood[1], WORD_PETROL, WORD_WATER, WORD_SOLD,
      <<"t", "a", " ", "x", "i">>, <<"B", "T", "S">>, <<"x">> }

\* a message of one fragment: an optional sign or income keyword, two words, an
\* amount, and the two-fragment messages of a word each
CategoryMessages ==
    {hint \o first \o second \o <<" ", "7">> :
        hint \in {<< >>, <<"+">>, KW_INCOME \o <<" ">>},
        first \in CategoryWords, second \in CategoryWords}
    \cup {first \o <<" ", "7", ",">> \o second \o <<" ", "3">> :
             first \in {WORD_PETROL, KeywordsFood[1]}, second \in CategoryWords}

\* the most characters of a fragment handed to parse_single_transaction
MaxTokenChars == 4

FragmentTexts == TextsOf(AmountChars, MaxTokenChars)

\* the most rows the table holds when a row is stored directly
MaxTxns == 3

\* a message with transactions is handled while the table holds fewer rows
MaxRecorded == 2

\* the last month the clock reaches
MaxMonth == 1

\* the rows the users store: incomes and expenses of 2, 7, 9.5 and 10
HealthRows ==
    { [user_id |-> "u1", txn_type |-> "income", amount |-> Dec(10, 0),
       category |-> GENERAL_INCOME, note |-> << >>],
      [user_id |-> "u1", txn_type |-> "expense", amount |-> Dec(7, 0),
       category |-> CatFood, note |-> << >>],
      [user_id |-> "u1", txn_type |-> "expense", amount |-> Dec(2, 0),
       category |-> CatTravel, note |-> << >>],
      [user_id |-> "u1", txn_type |-> "expense", amount |-> Dec(10, 0),
       category |-> CatFood, note |-> << >>],
      [user_id |-> "u1", txn_type |-> "expense", amount |-> Dec(95, 1),
       category |-> CatHome, note |-> << >>],
      [user_id |-> "u2", txn_type |-> "income", amount |-> Dec(10, 0),
       category |-> GENERAL_INCOME, note |-> << >>] }

\* a command of HEALTH_COMMANDS as it is, and one in capitals between spaces
HealthTexts ==
    { <<"f", "i", "n", "a", "n", "c", "i", "a", "l", " ", "h", "e", "a", "l", "t", "h">>,
      <<" ", "F", "I", "N", "A", "N", "C", "I", "A", "L", " ", "H", "E", "A", "L", "T", "H",
        " ">> }

\* "summary"
SummaryTodayTexts == { <<"s", "u", "m", "m", "a", "r", "y">> }

\* "Summary Month"
SummaryMonthTexts == { <<"S", "u", "m", "m", "a", "r", "y", " ", "M", "o", "n", "t", "h">> }

\* the listing command "<see the categories>"
ListTexts == {c \in CATEGORY_COMMANDS : Len(c) = 10}

\* "<add> <food> = Tea", "<add> <food>:latte" on the built-in category food, and
\* the prefix alone
AddTexts ==
    { ADD_CATEGORY_PREFIX \o <<" ">> \o CatFood \o <<" ", "=", " ", "T", "e", "a">>,
      ADD_CATEGORY_PREFIX \o <<" ">> \o CatFood \o <<":", "l", "a", "t", "t", "e">>,
      ADD_CATEGORY_PREFIX }

\* "<delete> <food>", and the prefix alone
DeleteTexts ==
    { DELETE_CATEGORY_PREFIX \o <<" ">> \o CatFood,
      DELETE_CATEGORY_PREFIX \o <<" ">> }

TEXT_RICE == KeywordsFood[1] \o <<" ", "7">>

TEXT_TEA == <<"T", "e", "a", " ", "7">>

\* "<rice> 7" (rice is a built-in keyword of food) and "Tea 7"
TransactionTexts == {TEXT_RICE, TEXT_TEA}

\* "<add> snack = <rice>" and "<add> drink = tea", two categories with new
\* names, the first with a built-in keyword of food, and "<add> <food> = Tea"
CustomAddTexts ==
    { ADD_CATEGORY_PREFIX \o <<" ", "s", "n", "a", "c", "k", " ", "=", " ">> \o KeywordsFood[1],
      ADD_CATEGORY_PREFIX \o <<" ", "d", "r", "i", "n", "k", " ", "=", " ", "t", "e", "a">>,
      ADD_CATEGORY_PREFIX \o <<" ">> \o CatFood \o <<" ", "=", " ", "T", "e", "a">> }

\* "<rice> 7", "<rice> tea 7" and "x 7"
CustomTransactionTexts ==
    { TEXT_RICE,
      KeywordsFood[1] \o <<" ", "t", "e", "a", " ", "7">>,
      <<"x", " ", "7">> }

-----------------------------------------------------------------------------
(* Specifications of the parser: a message is drawn and parsed *)

Idle ==
    /\ user = "u1"
    /\ pc = "ready"
    /\ entries = << >>
    /\ global_type = "None"
    /\ parsed_items = << >>
    /\ used_map = << >>
    /\ reply = << >>
    /\ CATEGORY_MAP = BUILTIN_CATEGORY_MAP
    /\ custom = [u \in Users |-> << >>]
    /\ transactions = << >>
    /\ health = << >>
    /\ now = [month |-> 0, day |-> 1]

\* parse_transactions(text) with no category map, as parse_transaction calls it
ParseMessage ==
    /\ pc = "ready"
    /\ entries' = split_entries(text)
    /\ global_type' = infer_global_type(text)
    /\ parsed_items' = parse_transactions(text, << >>)
    /\ pc' = "done"
    /\ UNCHANGED << text, user, used_map, reply, CATEGORY_MAP, custom, transactions, health, now >>

TypeInit == text \in TypeMessages /\ Idle

SpecType == TypeInit /\ [][ParseMessage]_vars

EntryInit == text \in EntryMessages /\ Idle

SpecEntries == EntryInit /\ [][ParseMessage]_vars

AmountInit == text \in AmountMessages /\ Idle

SpecAmount == AmountInit /\ [][ParseMessage]_vars

CategoryInit == text \in CategoryMessages /\ Idle

SpecResolve == CategoryInit /\ [][ParseMessage]_vars

\* parse_single_transaction(text) on a fragment, with no fallback type and no
\* category map
ParseSingle ==
    /\ pc = "ready"
    /\ parsed_items' = parse_single_transaction(text, "None", << >>)
    /\ pc' = "single"
    /\ UNCHANGED << text, user, entries, global_type, used_map, reply, CATEGORY_MAP, custom,
                    transactions, health, now >>

FragmentInit == text \in FragmentTexts /\ Idle

FragmentNext == ParseSingle \/ ParseMessage

SpecFragment == FragmentInit /\ [][FragmentNext]_vars

-----------------------------------------------------------------------------
(* handle_text_message of src/app.py: one action for each branch *)

\* the branch a text takes: the tests of lines 134, 137, 147, 156, 165 and 174,
\* in this order, and line 193 when none holds
Branch(s) ==
    LET normalized == Lower(Strip(s, Whitespace))
        stripped == Strip(s, Whitespace)
    IN  IF normalized \in CATEGORY_COMMANDS THEN "categories"
        ELSE IF StartsWith(stripped, ADD_CATEGORY_PREFIX) THEN "add_category"
        ELSE IF StartsWith(stripped, DELETE_CATEGORY_PREFIX) THEN "delete_category"
        ELSE IF normalized \in SUMMARY_TODAY_COMMANDS THEN "summary_today"
        ELSE IF normalized \in SUMMARY_MONTH_COMMANDS THEN "summary_month"
        ELSE IF normalized \in HEALTH_COMMANDS THEN "health"
        ELSE "transaction"

\* the webhook hands the text of user u to handle_text_message
Receive(u, t, branch) ==
    /\ pc = "ready"
    /\ Branch(t) = branch
    /\ text' = t
    /\ user' = u
    /\ pc' = "done"

\* format_category_response
HandleCategories(u, t) ==
    /\ Receive(u, t, "categories")
    /\ reply' = [kind |-> "categories",
                 defaults |-> {CATEGORY_MAP[i][1] : i \in DOMAIN CATEGORY_MAP},
                 custom |-> list_custom_categories(custom, u)]
    /\ UNCHANGED << entries, global_type, parsed_items, used_map, CATEGORY_MAP, custom,
                    transactions, health, now >>

HandleAddCategory(u, t) ==
    /\ Receive(u, t, "add_category")
    /\ LET parsed == parse_add_category_command(Strip(t, Whitespace))
       IN  IF parsed = << >>
           THEN reply' = [kind |-> "add_usage"] /\ custom' = custom
           ELSE LET done == add_or_update_custom_category(custom, u, parsed[1].name,
                                                         parsed[1].keywords)
                IN  /\ custom' = done.store
                    /\ reply' = [kind |-> IF done.created THEN "added" ELSE "updated",
                                 name |-> parsed[1].name,
                                 keywords |-> parsed[1].keywords]
    /\ UNCHANGED << entries, global_type, parsed_items, used_map, CATEGORY_MAP,
                    transactions, health, now >>

HandleDeleteCategory(u, t) ==
    /\ Receive(u, t, "delete_category")
    /\ LET name == parse_delete_category_command(Strip(t, Whitespace))
       IN  IF name = << >>
           THEN reply' = [kind |-> "delete_usage"] /\ custom' = custom
           ELSE LET done == delete_custom_category(custom, u, name[1])
                IN  /\ custom' = done.store
                    /\ reply' = [kind |-> IF done.removed THEN "deleted" ELSE "not_found",
                                 name |-> name[1]]
    /\ UNCHANGED << entries, global_type, parsed_items, used_map, CATEGORY_MAP,
                    transactions, health, now >>

\* the reply of the two summaries
SummaryReply(kind, s) ==
    [kind |-> kind, income |-> FormatAmount(s.income), expense |-> FormatAmount(s.expense),
     balance |-> FormatAmount(s.balance)]

HandleSummaryToday(u, t) ==
    /\ Receive(u, t, "summary_today")
    /\ reply' = SummaryReply("summary_today", summary_today(transactions, u, now))
    /\ UNCHANGED << entries, global_type, parsed_items, used_map, CATEGORY_MAP, custom,
                    transactions, health, now >>

HandleSummaryMonth(u, t) ==
    /\ Receive(u, t, "summary_month")
    /\ reply' = SummaryReply("summary_month", summary_month(transactions, u, now))
    /\ UNCHANGED << entries, global_type, parsed_items, used_map, CATEGORY_MAP, custom,
                    transactions, health, now >>

\* the lines of the reply of lines 180 to 191
HealthReply(h) ==
    [kind |-> "health",
     score |-> h.score,
     income |-> FormatAmount(h.income_month),
     expense |-> FormatAmount(h.expense_month),
     balance |-> FormatAmount(h.balance_month),
     expense_text |-> RatioText(h.expense_ratio),
     savings_text |-> RatioText(h.savings_rate),
     top_expense_category |-> h.top_expense_category,
     top_expense_amount |-> FormatAmount(h.top_expense_amount),
     transaction_count_month |-> h.transaction_count_month,
     tip |-> h.tip]

HandleHealth(u, t) ==
    /\ Receive(u, t, "health")
    /\ \E h \in financial_health(transactions, u, now) :
           /\ health' = << h >>
           /\ reply' = HealthReply(h)
    /\ UNCHANGED << entries, global_type, parsed_items, used_map, CATEGORY_MAP, custom,
                    transactions, now >>

\* the loop of lines 211 to 218 over the parsed items from position i on
RECURSIVE AddAll(_, _, _, _, _)
AddAll(rows, user_id, items, i, today) ==
    IF i > Len(items) THEN rows
    ELSE AddAll(add_transaction(rows, user_id, items[i].txn_type, items[i].amount,
                                items[i].category, items[i].note, today),
                user_id, items, i + 1, today)

\* the sum of the amounts of the items of a type
RECURSIVE TotalOf(_, _)
TotalOf(items, txn_type) ==
    IF items = << >> THEN DecZero
    ELSE IF Head(items).txn_type = txn_type
         THEN DecAdd(Head(items).amount, TotalOf(Tail(items), txn_type))
         ELSE TotalOf(Tail(items), txn_type)

\* lines 193 to 240: a message that is no command is parsed with the merged
\* category map of the user and its transactions are stored
HandleTransaction(u, t) ==
    /\ Receive(u, t, "transaction")
    /\ Len(transactions) < MaxRecorded
    /\ \E built \in {build_user_category_map(CATEGORY_MAP, list_custom_categories(custom, u))} :
       \E items \in {parse_transactions(t, built.category_map)} :
           /\ CATEGORY_MAP' = built.table
           /\ used_map' = built.category_map
           /\ entries' = split_entries(t)
           /\ global_type' = infer_global_type(t)
           /\ parsed_items' = items
           /\ transactions' = AddAll(transactions, u, items, 1, now)
           /\ reply' = IF items = << >> THEN [kind |-> "help"]
                       ELSE [kind |-> "recorded",
                             items |-> [i \in DOMAIN items |->
                                           [txn_type |-> items[i].txn_type,
                                            amount |-> FormatAmount(items[i].amount),
                                            category |-> items[i].category]],
                             total_income |-> FormatAmount(TotalOf(items, "income")),
                             total_expense |-> FormatAmount(TotalOf(items, "expense")),
                             net_amount |-> FormatAmount(DecSub(TotalOf(items, "income"),
                                                                TotalOf(items, "expense")))]
    /\ UNCHANGED << custom, health, now >>

\* lines 272 to 274 of webhook: the reply is sent and the next event is awaited
SendReply ==
    /\ pc = "done"
    /\ pc' = "ready"
    /\ text' = << >>
    /\ user' = "u1"
    /\ entries' = << >>
    /\ global_type' = "None"
    /\ parsed_items' = << >>
    /\ used_map' = << >>
    /\ reply' = << >>
    /\ health' = << >>
    /\ UNCHANGED << CATEGORY_MAP, custom, transactions, now >>

\* db.add_transaction for one parsed item, as line 212 calls it
AddTransaction(row) ==
    /\ pc = "ready"
    /\ Len(transactions) < MaxTxns
    /\ transactions' = add_transaction(transactions, row.user_id, row.txn_type, row.amount,
                                       row.category, row.note, now)
    /\ UNCHANGED << text, user, pc, entries, global_type, parsed_items, used_map, reply,
                    CATEGORY_MAP, custom, health, now >>

\* the clock of datetime.now() reaches the first day of the next month
NextMonth ==
    /\ pc = "ready"
    /\ now.month < MaxMonth
    /\ now' = [month |-> now.month + 1, day |-> 1]
    /\ UNCHANGED << text, user, pc, entries, global_type, parsed_items, used_map, reply,
                    CATEGORY_MAP, custom, transactions, health >>

-----------------------------------------------------------------------------
(* Specification of the financial health: transactions are stored, months   *)
(* pass, and users ask for their financial health and their summaries       *)

Init == text = << >> /\ Idle

HealthNext ==
    \/ \E row \in HealthRows : AddTransaction(row)
    \/ NextMonth
    \/ \E u \in Users, t \in HealthTexts : HandleHealth(u, t)
    \/ \E u \in Users, t \in SummaryTodayTexts : HandleSummaryToday(u, t)
    \/ \E u \in Users, t \in SummaryMonthTexts : HandleSummaryMonth(u, t)
    \/ SendReply

SpecHealth == Init /\ [][HealthNext]_vars

(* Specification of the categories: users add, update and delete custom     *)
(* categories, list them, and send transactions                             *)

CategoryNext ==
    \/ \E u \in Users, t \in ListTexts : HandleCategories(u, t)
    \/ \E u \in Users, t \in AddTexts : HandleAddCategory(u, t)
    \/ \E u \in Users, t \in DeleteTexts : HandleDeleteCategory(u, t)
    \/ \E u \in Users, t \in TransactionTexts : HandleTransaction(u, t)
    \/ SendReply

SpecCategory == Init /\ [][CategoryNext]_vars

(* Specification of the custom categories of one user: categories with new  *)
(* names and a category named as a built-in one are added in any order, and *)
(* transactions are sent                                                    *)

CustomNext ==
    \/ \E t \in CustomAddTexts : HandleAddCategory("u1", t)
    \/ \E t \in CustomTransactionTexts : HandleTransaction("u1", t)
    \/ SendReply

SpecCustom == Init /\ [][CustomNext]_vars

(* The whole program: every message, and the clock *)

Next ==
    \/ \E u \in Users, t \in ListTexts : HandleCategories(u, t)
    \/ \E u \in Users, t \in AddTexts : HandleAddCategory(u, t)
    \/ \E u \in Users, t \in DeleteTexts : HandleDeleteCategory(u, t)
    \/ \E u \in Users, t \in SummaryTodayTexts : HandleSummaryToday(u, t)
    \/ \E u \in Users, t \in SummaryMonthTexts : HandleSummaryMonth(u, t)
    \/ \E u \in Users, t \in HealthTexts : HandleHealth(u, t)
    \/ \E u \in Users, t \in TransactionTexts : HandleTransaction(u, t)
    \/ NextMonth
    \/ SendReply

Spec == Init /\ [][Next]_vars

-----------------------------------------------------------------------------
(* Properties of the parser *)

HasAmount(s) == parse_amount(s) # << >>

\* the distinct local type hints of the fragments of the handled message
LocalHints == {type_hint(entries[i]) : i \in DOMAIN entries} \ {"None"}

\* the fragments of the handled message that yield an amount, in order
AmountEntries == SelectSeq(entries, HasAmount)

\* C1 as stated: one distinct hint among the fragments is the message-wide type;
\* with no hint or with several distinct hints the message-wide type is the hint
\* of the whole unsplit text.
C1_RawHintForSeveral ==
    pc = "done" =>
        /\ \A h \in {"income", "expense"} : LocalHints = {h} => global_type = h
        /\ Cardinality(LocalHints) # 1 => global_type = type_hint(text)

\* C1 as the code has it: one distinct hint among the fragments is the
\* message-wide type; several distinct hints establish no message-wide type,
\* whatever the whole text starts with; with no hint at all the message-wide type
\* is the hint of the whole unsplit text.
C1_GlobalType ==
    pc = "done" =>
        /\ \A h \in {"income", "expense"} : LocalHints = {h} => global_type = h
        /\ Cardinality(LocalHints) > 1 => global_type = "None"
        /\ LocalHints = {} => global_type = type_hint(text)

\* a message whose fragments carry both hints and whose whole text has a hint
C1_Witness ==
    /\ pc = "done"
    /\ LocalHints = {"income", "expense"}
    /\ type_hint(text) = "income"
    /\ global_type = "None"

\* the pieces of the message as written, between the separators, before the
\* decoration is trimmed, that yield an amount
WrittenAmountEntries ==
    SelectSeq(PatternSplit(ReplaceChar(text, "FWCOMMA", ","), 1, 1), HasAmount)

\* C2: a written entry that begins with "+" is recorded as income and one that
\* begins with "-" as expense, whatever keywords it holds.
C2_SignDecides ==
    pc = "done" =>
        \A k \in DOMAIN WrittenAmountEntries \cap DOMAIN parsed_items :
            LET written == Strip(WrittenAmountEntries[k], Whitespace)
            IN  /\ StartsWith(written, <<"+">>) => parsed_items[k].txn_type = "income"
                /\ StartsWith(written, <<"-">>) => parsed_items[k].txn_type = "expense"

\* a message that is one number with one thousands separator: at most three
\* digits, a comma, three digits, between texts without digits and separators
ThousandsMessage ==
    \E b \in 1..Len(text), c \in 1..Len(text) :
        /\ c - b \in 1..3
        /\ c + 3 <= Len(text)
        /\ text[c] = ","
        /\ \A i \in (b..(c - 1)) \cup ((c + 1)..(c + 3)) : text[i] \in Digits
        /\ text[b] # "0"
        /\ \A i \in (1..(b - 1)) \cup ((c + 4)..Len(text)) :
               text[i] \notin Digits \cup {",", ".", ";", "LF", "FWCOMMA"}

\* the value of the digits of the text, its thousands separators left out
ThousandsValue == Dec(DigitsValue(SelectSeq(text, LAMBDA ch : ch \in Digits)), 0)

\* C3: a message with one amount written with a thousands separator yields one
\* transaction, whose amount is the whole number.
C3_ThousandsAmount ==
    pc = "done" /\ ThousandsMessage =>
        /\ Len(parsed_items) = 1
        /\ parsed_items[1].amount = ThousandsValue

\* C8: the result is empty only when the whole unsplit message yields no amount,
\* and when no fragment yields a transaction the result is what the whole
\* message parses to as one entry.
C8_TwoPass ==
    pc = "done" =>
        /\ parsed_items = << >> => ~HasAmount(text)
        /\ AmountEntries = << >> => parsed_items = parse_single_transaction(text, "None", << >>)

\* a message with fragments none of which yields an amount: the result is empty
C8_Witness ==
    /\ pc = "done"
    /\ Len(entries) >= 2
    /\ AmountEntries = << >>
    /\ parsed_items = << >>

\* C9: the transactions are those of the fragments with an amount; one from a
\* fragment without a local hint has the message-wide type, or expense when
\* there is none, and one from a fragment with a local hint has that hint.
C9_TypeInheritance ==
    pc = "done" =>
        /\ Len(parsed_items) = Len(AmountEntries)
        /\ \A k \in DOMAIN AmountEntries :
               LET hint == type_hint(AmountEntries[k])
               IN  parsed_items[k].txn_type =
                       IF hint # "None" THEN hint
                       ELSE IF global_type # "None" THEN global_type
                       ELSE "expense"

\* a fragment without a hint of its own that is recorded as income
C9_Witness ==
    /\ pc = "done"
    /\ Len(parsed_items) = 2
    /\ \E k \in DOMAIN AmountEntries :
           /\ type_hint(AmountEntries[k]) = "None"
           /\ global_type = "income"
           /\ parsed_items[k].txn_type = "income"

\* C10: when a fragment yields an amount, the result has one transaction for
\* each fragment that yields one, in the order of the fragments, each with the
\* amount and the note of its own fragment.
C10_OnePerAmountEntry ==
    pc = "done" /\ AmountEntries # << >> =>
        /\ Len(parsed_items) = Len(AmountEntries)
        /\ \A k \in DOMAIN AmountEntries :
               /\ << parsed_items[k].amount >> = parse_amount(AmountEntries[k])
               /\ parsed_items[k].note = clean_note(AmountEntries[k])

\* two fragments with different amounts around one that is dropped
C10_Witness ==
    /\ pc = "done"
    /\ Len(entries) = 3
    /\ ~HasAmount(entries[2])
    /\ Len(parsed_items) = 2
    /\ parsed_items[1].amount # parsed_items[2].amount

-----------------------------------------------------------------------------
(* Properties of the financial health *)

\* a snapshot of financial_health has been computed for the handled message
HealthAnswered == pc = "done" /\ health # << >>

\* 100 * balance / income >= k for decimals, income > 0
SavingsAtLeast(income, expense, k) ==
    LET balance == DecSub(income, expense)
    IN  100 * balance.num * Pow10(income.frac) >= k * income.num * Pow10(balance.frac)

\* C4: the label follows the thresholds in order: without income, expenses give
\* "needs attention" and no expenses give "insufficient data"; with income, a
\* savings rate of 30 or more gives "excellent", else 10 or more "good", else 0
\* or more "fair", else "needs adjustment".
C4_ScoreThresholds ==
    HealthAnswered =>
        LET income == health[1].income_month
            expense == health[1].expense_month
        IN  /\ income = summary_month(transactions, user, now).income
            /\ expense = summary_month(transactions, user, now).expense
            /\ health[1].score =
                   IF income.num <= 0 /\ expense.num > 0 THEN SCORE_NEEDS_ATTENTION
                   ELSE IF income.num <= 0 THEN SCORE_INSUFFICIENT_DATA
                   ELSE IF SavingsAtLeast(income, expense, 30) THEN SCORE_EXCELLENT
                   ELSE IF SavingsAtLeast(income, expense, 10) THEN SCORE_GOOD
                   ELSE IF SavingsAtLeast(income, expense, 0) THEN SCORE_FAIR
                   ELSE SCORE_NEEDS_ADJUSTMENT
            /\ reply.score = health[1].score

\* a savings rate of exactly 30 is excellent
C4_Witness ==
    /\ HealthAnswered
    /\ health[1].income_month = Dec(10, 0)
    /\ health[1].expense_month = Dec(7, 0)
    /\ health[1].score = SCORE_EXCELLENT

\* the fraction rate is 100 * part / income
IsPercentOf(rate, part, income) ==
    rate.num * income.num * Pow10(part.frac) = 100 * part.num * Pow10(income.frac) * rate.den

\* C5: the savings rate and the expense ratio are numbers exactly when the income
\* of the month is above 0, and then they are balance / income * 100 and
\* expense / income * 100; otherwise they are undefined, and the reply shows
\* "not computable" for exactly the undefined ones.
C5_RatiosDefined ==
    HealthAnswered =>
        LET h == health[1]
        IN  /\ h.balance_month = DecSub(h.income_month, h.expense_month)
            /\ (h.savings_rate # << >>) <=> (h.income_month.num > 0)
            /\ (h.expense_ratio # << >>) <=> (h.income_month.num > 0)
            /\ h.income_month.num > 0 =>
                   /\ IsPercentOf(h.savings_rate[1], h.balance_month, h.income_month)
                   /\ IsPercentOf(h.expense_ratio[1], h.expense_month, h.income_month)
            /\ (reply.savings_text = NOT_COMPUTABLE) <=> (h.savings_rate = << >>)
            /\ (reply.expense_text = NOT_COMPUTABLE) <=> (h.expense_ratio = << >>)

\* expenses without income: the ratios are undefined and shown as not computable
C5_Witness ==
    /\ HealthAnswered
    /\ health[1].income_month = DecZero
    /\ health[1].expense_month.num > 0
    /\ health[1].savings_rate = << >>
    /\ reply.savings_text = NOT_COMPUTABLE
    /\ reply.expense_text = NOT_COMPUTABLE

-----------------------------------------------------------------------------
(* Properties of the custom categories *)

\* a message with transactions has been handled
TransactionAnswered == pc = "done" /\ Branch(text) = "transaction"

\* a keyword of the list is in the fragment, as it is or without its spaces
FragmentMatches(fragment, keywords) ==
    \E i \in DOMAIN keywords :
        \/ Contains(Lower(fragment), Lower(keywords[i]))
        \/ Contains(RemoveChar(Lower(fragment), " "), RemoveChar(Lower(keywords[i]), " "))

\* C6: when a custom rule of the user has the name of a built-in rule, the map
\* the message is parsed with holds the custom keywords under that name, once,
\* and a transaction gets that name only from a fragment that matches the custom
\* keywords.
C6_CustomShadowsBuiltin ==
    TransactionAnswered =>
        \A i \in DOMAIN BUILTIN_CATEGORY_MAP : \A r \in DOMAIN custom[user] :
            custom[user][r][1] = BUILTIN_CATEGORY_MAP[i][1] =>
                /\ \E j \in DOMAIN used_map : used_map[j] = custom[user][r]
                /\ \A j \in DOMAIN used_map :
                       used_map[j][1] = custom[user][r][1] => used_map[j] = custom[user][r]
                /\ \A k \in DOMAIN AmountEntries \cap DOMAIN parsed_items :
                       parsed_items[k].category = custom[user][r][1] =>
                           FragmentMatches(AmountEntries[k], custom[user][r][2])

\* the user has a custom rule named as the built-in food, and a fragment with a
\* built-in keyword of food is no longer food
C6_Witness ==
    /\ TransactionAnswered
    /\ \E r \in DOMAIN custom[user] : custom[user][r][1] = CatFood
    /\ text = TEXT_RICE
    /\ FragmentMatches(text, KeywordsFood)
    /\ Len(parsed_items) = 1
    /\ parsed_items[1].category = GENERAL_EXPENSE

\* the built-in rules plus the rules of a user: a built-in rule with the keywords
\* of the custom rule of its name when there is one, then the other custom rules
MergedRules(rules) ==
    [i \in DOMAIN BUILTIN_CATEGORY_MAP |->
        IF \E r \in DOMAIN rules : rules[r][1] = BUILTIN_CATEGORY_MAP[i][1]
        THEN rules[CHOOSE r \in DOMAIN rules : rules[r][1] = BUILTIN_CATEGORY_MAP[i][1]]
        ELSE BUILTIN_CATEGORY_MAP[i]]
    \o SelectSeq(rules, LAMBDA rule :
           \A i \in DOMAIN BUILTIN_CATEGORY_MAP : BUILTIN_CATEGORY_MAP[i][1] # rule[1])

\* the category of the first rule that matches the fragment, the general expense
\* category when there is none
FirstCategory(fragment, rules) ==
    IF \E i \in DOMAIN rules : FragmentMatches(fragment, rules[i][2])
    THEN rules[CHOOSE i \in DOMAIN rules :
                   /\ FragmentMatches(fragment, rules[i][2])
                   /\ \A j \in 1..(i - 1) : ~FragmentMatches(fragment, rules[j][2])][1]
    ELSE GENERAL_EXPENSE

\* C7: the built-in table is never changed, and every message with transactions
\* is parsed with the built-in rules plus the custom rules the user has stored
\* when the message is handled, whatever was added, updated or deleted before.
C7_MergedPerRequest ==
    /\ CATEGORY_MAP = BUILTIN_CATEGORY_MAP
    /\ TransactionAnswered =>
           /\ used_map = MergedRules(custom[user])
           /\ \A k \in DOMAIN AmountEntries \cap DOMAIN parsed_items :
                  parsed_items[k].txn_type = "expense" =>
                      parsed_items[k].category =
                          FirstCategory(AmountEntries[k], MergedRules(custom[user]))

\* the same message of one user twice: recorded as food while the custom rule of
\* the user was stored, and as a general expense once the rule is deleted
C7_Witness ==
    /\ TransactionAnswered
    /\ text = TEXT_TEA
    /\ custom[user] = << >>
    /\ Len(transactions) = 2
    /\ transactions[1].user_id = user
    /\ transactions[1].note = TEXT_TEA
    /\ transactions[1].category = CatFood
    /\ transactions[2].user_id = user
    /\ transactions[2].note = TEXT_TEA
    /\ transactions[2].category = GENERAL_EXPENSE
    /\ CATEGORY_MAP = BUILTIN_CATEGORY_MAP

-----------------------------------------------------------------------------
(* Properties of the category resolver *)

\* the rules detect_category reads for the handled message
ActiveRules == IF used_map = << >> THEN CATEGORY_MAP ELSE used_map

\* the positions of the rules with a keyword that matches the fragment
MatchingRules(fragment, rules) ==
    {i \in DOMAIN rules : FragmentMatches(fragment, rules[i][2])}

\* C11: the category of a transaction is the name of the first rule, in the
\* order of the rule set, with a keyword that matches its fragment, and no rule
\* before it matches; when no rule matches it is the general income category
\* for an income and the general expense category otherwise.
C11_FirstRuleWins ==
    pc = "done" =>
        \A k \in DOMAIN AmountEntries \cap DOMAIN parsed_items :
            LET hits == MatchingRules(AmountEntries[k], ActiveRules)
            IN  /\ hits = {} =>
                       parsed_items[k].category =
                           IF parsed_items[k].txn_type = "income" THEN GENERAL_INCOME
                           ELSE GENERAL_EXPENSE
                /\ hits # {} =>
                       \E i \in hits :
                           /\ parsed_items[k].category = ActiveRules[i][1]
                           /\ \A j \in hits : i <= j

\* a fragment that matches the rules of travel and of home is travel, the first
C11_Witness ==
    /\ pc = "done"
    /\ Len(parsed_items) = 1
    /\ Cardinality(MatchingRules(AmountEntries[1], ActiveRules)) >= 2
    /\ FragmentMatches(AmountEntries[1], KeywordsHome)
    /\ parsed_items[1].category = CatTravel

-----------------------------------------------------------------------------
(* Properties of the amount *)

\* the position of the first digit of the text, 0 when it has none
FirstDigit ==
    IF \E i \in DOMAIN text : text[i] \in Digits
    THEN CHOOSE i \in DOMAIN text :
             text[i] \in Digits /\ \A j \in 1..(i - 1) : text[j] \notin Digits
    ELSE 0

\* the last position of the longest run of characters of the set from b on
LastOfRun(b, chars) ==
    CHOOSE e \in b..Len(text) :
        /\ \A i \in b..e : text[i] \in chars
        /\ e = Len(text) \/ text[e + 1] \notin chars

\* the first numeric token of the text: the digits of its whole part, its
\* separators left out, and the digits of its fraction
FirstToken ==
    LET e == LastOfRun(FirstDigit, Digits \cup {","})
        whole == SelectSeq(SubSeq(text, FirstDigit, e), LAMBDA c : c \in Digits)
        fraction == IF e + 2 <= Len(text) /\ text[e + 1] = "." /\ text[e + 2] \in Digits
                    THEN SubSeq(text, e + 2, LastOfRun(e + 2, Digits))
                    ELSE << >>
    IN  [whole |-> whole, fraction |-> fraction]

\* the value of the first numeric token
FirstTokenValue ==
    Dec(DigitsValue(FirstToken.whole \o FirstToken.fraction), Len(FirstToken.fraction))

\* C12: a fragment yields the value of its first numeric token when that value
\* is above 0, and no amount when it has no digit or when that value is 0,
\* whatever numbers follow; every amount of a transaction of a message is
\* above 0.
C12_FirstTokenOnly ==
    /\ pc = "single" =>
           IF FirstDigit = 0 THEN parsed_items = << >>
           ELSE IF \A i \in DOMAIN (FirstToken.whole \o FirstToken.fraction) :
                       (FirstToken.whole \o FirstToken.fraction)[i] = "0"
           THEN parsed_items = << >>
           ELSE /\ Len(parsed_items) = 1
                /\ parsed_items[1].amount = FirstTokenValue
                /\ parsed_items[1].amount.num > 0
    /\ pc = "done" => \A k \in DOMAIN parsed_items : parsed_items[k].amount.num > 0

\* a first number of 0 is rejected and the 7 after it is not used
C12_Witness ==
    /\ pc = "single"
    /\ text = <<"0", "x", "7">>
    /\ parsed_items = << >>

-----------------------------------------------------------------------------
(* Properties of the order of the merged rules *)

BuiltinNames == {BUILTIN_CATEGORY_MAP[i][1] : i \in DOMAIN BUILTIN_CATEGORY_MAP}

\* the custom rules of the user whose names are no built-in names, as stored
NewRules == SelectSeq(custom[user], LAMBDA rule : rule[1] \notin BuiltinNames)

\* the merged rules have the built-in names first, in the built-in order, and
\* then the custom rules with new names in the order of the store
BuiltinsFirst ==
    /\ Len(used_map) = Len(BUILTIN_CATEGORY_MAP) + Len(NewRules)
    /\ \A i \in DOMAIN BUILTIN_CATEGORY_MAP : used_map[i][1] = BUILTIN_CATEGORY_MAP[i][1]
    /\ \A r \in DOMAIN NewRules : used_map[Len(BUILTIN_CATEGORY_MAP) + r] = NewRules[r]

\* C13 as stated: the built-in names come first and the new custom rules follow,
\* and a transaction has the name of a new custom rule only when its fragment
\* matches the keywords of no built-in rule.
C13_BuiltinKeywordsWin ==
    TransactionAnswered =>
        /\ BuiltinsFirst
        /\ \A k \in DOMAIN AmountEntries \cap DOMAIN parsed_items :
               parsed_items[k].category \notin BuiltinNames \cup {GENERAL_INCOME, GENERAL_EXPENSE} =>
                   \A i \in DOMAIN BUILTIN_CATEGORY_MAP :
                       ~FragmentMatches(AmountEntries[k], BUILTIN_CATEGORY_MAP[i][2])

\* C13 as the code has it: the built-in names come first and the new custom
\* rules follow, and a transaction has the name of a new custom rule only when
\* its fragment matches no rule under a built-in name, with the keywords that
\* rule has in the merged set: the custom ones when the user shadows it.
C13_BuiltinPositionsWin ==
    TransactionAnswered =>
        /\ BuiltinsFirst
        /\ \A k \in DOMAIN AmountEntries \cap DOMAIN parsed_items :
               parsed_items[k].category \notin BuiltinNames \cup {GENERAL_INCOME, GENERAL_EXPENSE} =>
                   /\ \E r \in DOMAIN NewRules : NewRules[r][1] = parsed_items[k].category
                   /\ \A i \in DOMAIN BUILTIN_CATEGORY_MAP :
                          ~FragmentMatches(AmountEntries[k], used_map[i][2])

\* a fragment that matches the built-in food and the custom snack is food
C13_Witness ==
    /\ TransactionAnswered
    /\ text = TEXT_RICE
    /\ \E r \in DOMAIN NewRules : FragmentMatches(text, NewRules[r][2])
    /\ used_map[1] = BUILTIN_CATEGORY_MAP[1]
    /\ Len(parsed_items) = 1
    /\ parsed_items[1].category = CatFood

=============================================================================
